---- MODULE Spec2Model ----
(***************************************************************************)
(* Sharp Golf backend (src/main.py): the in-memory cache, the cached       *)
(* upstream fetch dg_fetch, its tolerant variant safe_dg_fetch, and the    *)
(* /api/top20-picks merge-and-score pipeline.                              *)
(*                                                                         *)
(* Number representation.  Decimal odds are integers in hundredths         *)
(* (1.5 is 150).  Skill values are integers in thousandths.  Quotients     *)
(* (1/top_20, sg/std, the min-max scaling) are exact rationals             *)
(* [n |-> numerator, d |-> denominator > 0] in lowest terms; round(x, 1)   *)
(* is round-half-even of the exact value, in tenths.  Python computes the  *)
(* same quantities in binary floating point, which agrees with the exact   *)
(* value except within an ulp of a rounding tie.                           *)
(*                                                                         *)
(* JSON objects are functions from field names to values; an absent key is *)
(* a name outside the DOMAIN.  A field that the code tests with            *)
(* isinstance(.., list) is a record [type, items].                         *)
(***************************************************************************)
EXTENDS Integers, Sequences, FiniteSets, TLC

VARIABLES
    DG_API_KEY,  \* the credential read from the environment at import
    cache,       \* _cache: cache key -> [data, timestamp]
    now,         \* datetime.now(), in minutes
    pc,          \* per request: "idle", "gather" (fetches in flight), "done"
    task,        \* per request, its dg_fetch coroutines, one per dataset
    response,    \* per request, what the endpoint handed back
    calls,       \* per request and dataset, upstream calls made by this request
    lastPut,     \* per cache key, the last set_cached call [data, at]
    probe        \* the last get_cached call [key, result]

vars == <<DG_API_KEY, cache, now, pc, task, response, calls, lastPut, probe>>

(***************************************************************************)
(* Arithmetic                                                              *)
(***************************************************************************)
Abs(x) == IF x < 0 THEN -x ELSE x

Min(a, b) == IF a <= b THEN a ELSE b

RECURSIVE Gcd(_, _)
Gcd(a, b) == IF b = 0 THEN a ELSE Gcd(b, a % b)

Rat(n, d) ==
    LET g == Gcd(Abs(n), d)
    IN  IF n = 0 THEN [n |-> 0, d |-> 1] ELSE [n |-> n \div g, d |-> d \div g]

RSub(a, b) == Rat(a.n * b.d - b.n * a.d, a.d * b.d)

RLess(a, b) == a.n * b.d < b.n * a.d

\* a / b for b > 0
RDiv(a, b) == Rat(a.n * b.d, a.d * b.n)

\* Python round(): nearest integer to n / d (n >= 0, d > 0), ties to even
RoundHalfEven(n, d) ==
    LET q == n \div d
        r == n % d
    IN  IF 2 * r < d THEN q
        ELSE IF 2 * r > d THEN q + 1
        ELSE IF q % 2 = 0 THEN q ELSE q + 1

\* round(x, 1) of a rational x >= 0, in tenths
Round1(x) == RoundHalfEven(x.n * 10, x.d)

\* round(x, 4) of a rational x >= 0, in ten-thousandths
Round4(x) == RoundHalfEven(x.n * 10000, x.d)

(***************************************************************************)
(* JSON objects and Python dicts                                           *)
(***************************************************************************)
EmptyDoc == [k \in {} |-> 0]

\* d.get(k, default)
Get(d, k, default) == IF k \in DOMAIN d THEN d[k] ELSE default

JList(items) == [type |-> "list", items |-> items]

JString == [type |-> "str", items |-> <<>>]

\* `if not isinstance(x, list): x = []`
AsList(v) == IF v.type = "list" THEN v.items ELSE <<>>

\* the sequence f written out element by element
AsTuple(f) == f \o <<>>

\* A dict keyed by dg_id, in insertion order: a sequence of [k, v].
DictHas(m, k) == \E i \in 1..Len(m) : m[i].k = k

DictGet(m, k, default) ==
    IF DictHas(m, k) THEN m[CHOOSE i \in 1..Len(m) : m[i].k = k].v ELSE default

\* The dict left by `for p in list: if keep(p): d[p.dg_id] = value(p)`, with
\* kept the positions of list that pass the test and values[i] the value of
\* list[i]: a key sits where it was first inserted and holds what was
\* assigned last.
DictOfLoop(list, kept, values) ==
    LET id(i)  == Get(list[i], "dg_id", 0)
        first  == SelectSeq([i \in 1..Len(list) |-> i],
                            LAMBDA i : i \in kept
                                       /\ \A j \in kept : id(j) = id(i) => i <= j)
        last(i) == CHOOSE j \in kept :
                      id(j) = id(i) /\ \A h \in kept : id(h) = id(i) => h <= j
    IN  AsTuple([n \in 1..Len(first) |->
                    [k |-> id(first[n]), v |-> values[last(first[n])]]])

(***************************************************************************)
(* Odds conversion                                                         *)
(***************************************************************************)
SPORTSBOOKS ==
    << "draftkings", "fanduel", "betmgm", "caesars", "pinnacle",
       "bet365", "bovada", "circa", "betway", "williamhill", "betonline",
       "betcris", "skybet", "sportsbook", "unibet", "corale", "pointsbet" >>

None == "None"

\* dec in hundredths
dec_to_american(dec) ==
    IF dec = 0 \/ dec <= 100 THEN None
    ELSE IF dec >= 200 THEN "+" \o ToString(dec - 100)
    ELSE "-" \o ToString(RoundHalfEven(10000, dec - 100))

(***************************************************************************)
(* get_top20_picks, after the three documents are gathered                 *)
(***************************************************************************)
\* `or`: the left operand unless it is falsy (0 or None, both modelled 0)
Or(a, b) == IF a # 0 THEN a ELSE b

event_name(predictions, outrights) ==
    LET o == Get(outrights, "event_name", "")
    IN  IF o # "" THEN o ELSE Get(predictions, "event_name", "")

\* variant: baseline is also used when baseline_history_fit is not a list
pred_list_fallback(predictions) ==
    LET primary == Get(predictions, "baseline_history_fit", JString)
    IN  IF primary.type = "list" THEN primary.items
        ELSE AsList(Get(predictions, "baseline", JList(<<>>)))

\* 1. Predictions lookup: dg_id -> top_20 probability
pred_list(predictions) ==
    AsList(Get(predictions, "baseline_history_fit",
               Get(predictions, "baseline", JList(<<>>))))

pred_keep(p) ==
    LET dg_id == Get(p, "dg_id", 0)
        t20   == Get(p, "top_20", 0)
    IN  dg_id # 0 /\ t20 # 0 /\ t20 > 0

\* 1.0 / t20
pred_value(p) == Rat(100, p.top_20)

pred_lookup(predictions) ==
    LET list == pred_list(predictions)
    IN  DictOfLoop(list, {i \in 1..Len(list) : pred_keep(list[i])},
                   [i \in 1..Len(list) |-> pred_value(list[i])])

\* 2. Outrights lookup: dg_id -> best sportsbook odds
book_valid(p, book) == LET val == Get(p, book, 0) IN val # 0 /\ val > 100

RECURSIVE scan_books(_, _, _)
scan_books(p, i, acc) ==
    IF i > Len(SPORTSBOOKS) THEN acc
    ELSE LET book == SPORTSBOOKS[i]
             val  == Get(p, book, 0)
         IN  IF book_valid(p, book) /\ val > acc.best_dec
             THEN scan_books(p, i + 1, [best_dec |-> val, best_book |-> book])
             ELSE scan_books(p, i + 1, acc)

all_odds(p) ==
    [book \in {b \in DOMAIN p : (\E i \in 1..Len(SPORTSBOOKS) : SPORTSBOOKS[i] = b)
                                /\ book_valid(p, b)
                                /\ dec_to_american(p[b]) # None}
        |-> dec_to_american(p[book])]

best_of(p) == scan_books(p, 1, [best_dec |-> 0, best_book |-> ""])

odds_keep(p) == Get(p, "dg_id", 0) # 0 /\ best_of(p).best_dec > 0

odds_value(p) ==
    [best_dec      |-> best_of(p).best_dec,
     best_american |-> dec_to_american(best_of(p).best_dec),
     best_book     |-> best_of(p).best_book,
     all_odds      |-> all_odds(p),
     player_name   |-> Get(p, "player_name", "")]

odds_lookup(outrights) ==
    LET list == AsList(Get(outrights, "odds", JList(<<>>)))
    IN  DictOfLoop(list, {i \in 1..Len(list) : odds_keep(list[i])},
                   [i \in 1..Len(list) |-> odds_value(list[i])])

\* 3. Decompositions lookup: dg_id -> skill data
decomps_keep(p) == Get(p, "dg_id", 0) # 0

decomps_value(p) == p

decomps_lookup(decomps) ==
    LET list == AsList(Get(decomps, "players", JList(<<>>)))
    IN  DictOfLoop(list, {i \in 1..Len(list) : decomps_keep(list[i])},
                   [i \in 1..Len(list) |-> decomps_value(list[i])])

\* variant: the ends of the band are left out
in_odds_range_exclusive(best_dec) == ~(best_dec <= 150 \/ best_dec >= 600)

\* 4. Merge and filter by odds range (decimal 1.5 to 6.0)
in_odds_range(best_dec) == ~(best_dec < 150 \/ best_dec > 600)

sg_total_predicted(decomp) ==
    Or(Or(Get(decomp, "final_pred", 0), Get(decomp, "baseline_pred", 0)), 0)

candidate(dg_id, odds, preds, decs) ==
    LET decomp == DictGet(decs, dg_id, EmptyDoc)
    IN  [dg_id              |-> dg_id,
         player_name        |-> odds.player_name,
         dg_top20_prob      |-> DictGet(preds, dg_id, Rat(0, 1)),
         best_odds          |-> odds.best_american,
         best_odds_dec      |-> odds.best_dec,
         best_book          |-> odds.best_book,
         all_odds           |-> odds.all_odds,
         course_fit         |-> Or(Get(decomp, "total_fit_adjustment", 0), 0)
                                + Or(Get(decomp, "total_course_history_adjustment", 0), 0),
         sg_short_game      |-> Or(Get(decomp, "cf_short_comp", 0), 0),
         sg_approach        |-> Or(Get(decomp, "cf_approach_comp", 0), 0),
         sg_total_predicted |-> sg_total_predicted(decomp),
         std_deviation      |-> Or(Get(decomp, "std_deviation", 0), 3000)]

in_band(e) == in_odds_range(e.v.best_dec)

merged(predictions, outrights, decomps) ==
    LET kept  == SelectSeq(odds_lookup(outrights), in_band)
        preds == pred_lookup(predictions)
        decs  == decomps_lookup(decomps)
    IN  AsTuple([n \in 1..Len(kept) |-> candidate(kept[n].k, kept[n].v, preds, decs)])

\* variant: the scaling to 0-100 is left at 0-1
normalize_unit(vals) ==
    LET range == {vals[i] : i \in 1..Len(vals)}
        mn == CHOOSE v \in range : \A w \in range : ~RLess(w, v)
        mx == CHOOSE v \in range : \A w \in range : ~RLess(v, w)
    IN  IF mx = mn
        THEN AsTuple([i \in 1..Len(vals) |-> Rat(50, 1)])
        ELSE AsTuple([i \in 1..Len(vals) |-> RDiv(RSub(vals[i], mn), RSub(mx, mn))])

\* 5. Normalize each factor to 0-100
normalize(vals) ==
    LET range == {vals[i] : i \in 1..Len(vals)}
        mn == CHOOSE v \in range : \A w \in range : ~RLess(w, v)
        mx == CHOOSE v \in range : \A w \in range : ~RLess(v, w)
    IN  IF mx = mn
        THEN AsTuple([i \in 1..Len(vals) |-> Rat(50, 1)])
        ELSE AsTuple([i \in 1..Len(vals) |->
                        LET q == RDiv(RSub(vals[i], mn), RSub(mx, mn))
                        IN  Rat(q.n * 100, q.d)])

form(r) ==
    Rat(r.sg_total_predicted,
        IF r.std_deviation >= 500 THEN r.std_deviation ELSE 500)

\* 6. Floor Score, in units of 1/10000; the weights are in thousandths
floor_sum(f) ==
    f.model * 269 + f.course * 133 + f.short_game * 59
    + f.approach * 56 + f.form * 150 + f.overall * 333

\* variant: the thresholds are applied to the rounded score
confidence_rounded(fs) ==
    IF RoundHalfEven(fs, 1000) >= 850 THEN "LOCK"
    ELSE IF RoundHalfEven(fs, 1000) >= 750 THEN "HIGH"
    ELSE IF RoundHalfEven(fs, 1000) >= 650 THEN "SOLID"
    ELSE "LEAN"

confidence(fs) ==
    IF fs >= 850000 THEN "LOCK"
    ELSE IF fs >= 750000 THEN "HIGH"
    ELSE IF fs >= 650000 THEN "SOLID"
    ELSE "LEAN"

build_picks(m) ==
    LET n_prob  == normalize(AsTuple([i \in 1..Len(m) |-> m[i].dg_top20_prob]))
        n_fit   == normalize(AsTuple([i \in 1..Len(m) |-> Rat(m[i].course_fit, 1)]))
        n_short == normalize(AsTuple([i \in 1..Len(m) |-> Rat(m[i].sg_short_game, 1)]))
        n_app   == normalize(AsTuple([i \in 1..Len(m) |-> Rat(m[i].sg_approach, 1)]))
        n_sg    == normalize(AsTuple([i \in 1..Len(m) |-> Rat(m[i].sg_total_predicted, 1)]))
        n_form  == normalize(AsTuple([i \in 1..Len(m) |-> form(m[i])]))
    IN  AsTuple([i \in 1..Len(m) |->
            LET raw == m[i]
                factors == [model      |-> Round1(n_prob[i]),
                            course     |-> Round1(n_fit[i]),
                            short_game |-> Round1(n_short[i]),
                            approach   |-> Round1(n_app[i]),
                            form       |-> Round1(n_form[i]),
                            overall    |-> Round1(n_sg[i])]
                fs == floor_sum(factors)
            IN  [player_name        |-> raw.player_name,
                 dg_id              |-> raw.dg_id,
                 floor_score        |-> RoundHalfEven(fs, 1000),
                 dg_top20_prob      |-> Round4(raw.dg_top20_prob),
                 best_odds          |-> raw.best_odds,
                 best_odds_dec      |-> raw.best_odds_dec,
                 best_book          |-> raw.best_book,
                 all_odds           |-> raw.all_odds,
                 course_fit         |-> raw.course_fit,
                 sg_short_game      |-> raw.sg_short_game,
                 sg_approach        |-> raw.sg_approach,
                 sg_total_predicted |-> raw.sg_total_predicted,
                 confidence         |-> confidence(fs),
                 factors            |-> factors]])

\* variant: reverse=True left out
sort_picks_ascending(picks) ==
    LET before(j, i) ==
            \/ picks[j].floor_score < picks[i].floor_score
            \/ picks[j].floor_score = picks[i].floor_score /\ j < i
        place(i) == 1 + Cardinality({j \in 1..Len(picks) : before(j, i)})
    IN  AsTuple([n \in 1..Len(picks) |-> picks[CHOOSE i \in 1..Len(picks) : place(i) = n]])

\* picks.sort(key=floor_score, reverse=True): descending, equal keys keep
\* their order (the sort is stable)
sort_picks(picks) ==
    LET before(j, i) ==
            \/ picks[j].floor_score > picks[i].floor_score
            \/ picks[j].floor_score = picks[i].floor_score /\ j < i
        place(i) == 1 + Cardinality({j \in 1..Len(picks) : before(j, i)})
    IN  AsTuple([n \in 1..Len(picks) |-> picks[CHOOSE i \in 1..Len(picks) : place(i) = n]])

PicksLimit == 30

truncate(picks) == SubSeq(picks, 1, Min(PicksLimit, Len(picks)))

top20_picks(predictions, outrights, decomps) ==
    LET m == merged(predictions, outrights, decomps)
    IN  [event_name |-> event_name(predictions, outrights),
         picks      |-> IF m = <<>> THEN <<>>
                        ELSE truncate(sort_picks(build_picks(m)))]


(***************************************************************************)
(* Cache                                                                   *)
(***************************************************************************)
CACHE_TTL == 15

Miss == [hit |-> FALSE, data |-> EmptyDoc]

\* variant: an entry exactly CACHE_TTL old still counts as fresh
get_cached_inclusive(c, key, t) ==
    IF key \in DOMAIN c
    THEN IF t - c[key].timestamp <= CACHE_TTL
         THEN [hit |-> TRUE, data |-> c[key].data]
         ELSE Miss
    ELSE Miss

\* None is Miss; a stored document d comes back as [hit |-> TRUE, data |-> d]
get_cached(c, key, t) ==
    IF key \in DOMAIN c
    THEN IF t - c[key].timestamp < CACHE_TTL
         THEN [hit |-> TRUE, data |-> c[key].data]
         ELSE Miss
    ELSE Miss

set_cached(c, key, data, t) ==
    [k \in DOMAIN c \cup {key} |->
        IF k = key THEN [data |-> data, timestamp |-> t] ELSE c[k]]

(***************************************************************************)
(* dg_fetch and safe_dg_fetch                                              *)
(***************************************************************************)
\* json.dumps(params, sort_keys=True) is determined by the mapping alone
cache_key(endpoint, params) == <<endpoint, params>>

\* params["key"] = DG_API_KEY; params["file_format"] = "json"
with_auth(params, api_key) ==
    [k \in DOMAIN params \cup {"key", "file_format"} |->
        IF k = "key" THEN api_key
        ELSE IF k = "file_format" THEN "json"
        ELSE params[k]]

Raised == [raised |-> TRUE, doc |-> EmptyDoc]

Returned(doc) == [raised |-> FALSE, doc |-> doc]

\* variant: the cached data is looked up but not returned
dg_fetch_begin_nocache(c, api_key, endpoint, params, t) ==
    LET key == cache_key(endpoint, with_auth(params, api_key))
    IN  IF api_key = "" THEN [next |-> "done", key |-> key, outcome |-> Raised]
        ELSE [next |-> "await", key |-> key, outcome |-> Returned(EmptyDoc)]

\* dg_fetch up to the upstream call: raise, return the cached data, or suspend
dg_fetch_begin(c, api_key, endpoint, params, t) ==
    LET key    == cache_key(endpoint, with_auth(params, api_key))
        cached == get_cached(c, key, t)
    IN  IF api_key = "" THEN [next |-> "done", key |-> key, outcome |-> Raised]
        ELSE IF cached.hit
             THEN [next |-> "done", key |-> key, outcome |-> Returned(cached.data)]
             ELSE [next |-> "await", key |-> key, outcome |-> Returned(EmptyDoc)]

\* variant: the reply is stored whatever its status
cache_after_reply_always(c, key, reply, t) == set_cached(c, key, reply.doc, t)

\* dg_fetch from the upstream reply on: the cache afterwards
cache_after_reply(c, key, reply, t) ==
    IF reply.status = 200 THEN set_cached(c, key, reply.doc, t) ELSE c

\* dg_fetch from the upstream reply on: what the call hands back
dg_fetch_reply(reply) ==
    IF reply.status = 200 THEN Returned(reply.doc) ELSE Raised

\* variant: the exception is passed on instead of being swallowed
safe_dg_fetch_reraise(outcome) == outcome

\* try: return await dg_fetch(..)  except Exception: return {}
safe_dg_fetch(outcome) ==
    IF outcome.raised THEN Returned(EmptyDoc) ELSE outcome

\* the three fetches of get_top20_picks(tour)
Fetches(tour) ==
    << [endpoint |-> "preds/pre-tournament",
        params   |-> [tour |-> tour, odds_format |-> "decimal"]],
       [endpoint |-> "betting-tools/outrights",
        params   |-> [tour |-> tour, market |-> "top_20", odds_format |-> "decimal"]],
       [endpoint |-> "preds/player-decompositions",
        params   |-> [tour |-> tour]] >>


(***************************************************************************)
(* Upstream documents                                                      *)
(***************************************************************************)
MaxPlayers == 32

\* decimal top-20 odds whose reciprocals have small denominators
NiceOdds == <<125, 200, 250, 400, 500, 1000, 2000>>

PredEntries(n, a) ==
    [i \in 1..n |-> [dg_id |-> i, top_20 |-> NiceOdds[((i * a) % 7) + 1]]]

\* entries the indexer has to skip, and a repeated identity
OddPredEntries ==
    << [dg_id |-> 0, top_20 |-> 200], [dg_id |-> 2, top_20 |-> 0],
       [dg_id |-> 3], [dg_id |-> 4, top_20 |-> -200],
       [dg_id |-> 1, top_20 |-> 500], [dg_id |-> 1, top_20 |-> 250] >>

PredDocsSmall ==
    { [event_name |-> "Open", baseline_history_fit |-> JList(PredEntries(3, 1)),
       baseline |-> JList(PredEntries(3, 2))] }

PredDocs ==
    PredDocsSmall \cup
    { [event_name |-> "Open", baseline_history_fit |-> JList(PredEntries(MaxPlayers, 3)),
       baseline |-> JList(PredEntries(MaxPlayers, 2))],
      [event_name |-> "Open", baseline |-> JList(PredEntries(3, 2))],
      [event_name |-> "Open", baseline_history_fit |-> JString,
       baseline |-> JList(PredEntries(3, 2))],
      [event_name |-> "Open", baseline_history_fit |-> JList(<<>>),
       baseline |-> JList(PredEntries(3, 2))],
      [baseline_history_fit |-> JList(OddPredEntries \o PredEntries(2, 1))],
      [baseline |-> JString],
      [event_name |-> "Open"] }

OddsEntries(n, a) ==
    [i \in 1..n |-> [dg_id |-> i, player_name |-> ToString(i),
                     draftkings |-> 150 + ((i * a) % 10) * 50,
                     fanduel    |-> 150 + ((i * 7) % 10) * 50,
                     pinnacle   |-> 101 + (i % 3) * 40]]

\* best odds on and just outside the band, no valid book, no identity
BandEntries ==
    << [dg_id |-> 1, player_name |-> "1", draftkings |-> 149, fanduel |-> 120],
       [dg_id |-> 2, player_name |-> "2", draftkings |-> 150, fanduel |-> 100],
       [dg_id |-> 3, player_name |-> "3", betmgm |-> 600, caesars |-> 600],
       [dg_id |-> 4, player_name |-> "4", bet365 |-> 601, draftkings |-> 300],
       [dg_id |-> 5, player_name |-> "5", draftkings |-> 100, fanduel |-> 0],
       [dg_id |-> 0, player_name |-> "0", draftkings |-> 300],
       [dg_id |-> 6, draftkings |-> 250, notabook |-> 900],
       [dg_id |-> 7, player_name |-> "7", draftkings |-> 700],
       [dg_id |-> 7, player_name |-> "7", draftkings |-> 400] >>

OddsDocsSmall == { [event_name |-> "Masters", odds |-> JList(OddsEntries(3, 3))] }

OddsDocs ==
    OddsDocsSmall \cup
    { [event_name |-> "Masters", odds |-> JList(OddsEntries(MaxPlayers, 3))],
      [event_name |-> "Masters", odds |-> JList(OddsEntries(MaxPlayers - 1, 1))],
      [event_name |-> "Masters", odds |-> JList(BandEntries)],
      [event_name |-> "", odds |-> JList(<<BandEntries[1], BandEntries[4]>>)],
      [event_name |-> "Masters", odds |-> JString] }

DecompEntries(n, a) ==
    [i \in 1..n |-> [dg_id |-> i, player_name |-> ToString(i),
                     total_fit_adjustment |-> (((i * a) % 11) - 5) * 100,
                     total_course_history_adjustment |-> ((i % 3) - 1) * 50,
                     cf_short_comp    |-> ((i * 5) % 7) * 100,
                     cf_approach_comp |-> (((i * 3) % 5) - 2) * 200,
                     final_pred       |-> (((i * a) % 13) - 4) * 250,
                     baseline_pred    |-> ((i % 5) - 1) * 300,
                     std_deviation    |-> <<400, 2000, 3000>>[(i % 3) + 1]]]

\* final_pred present and falsy, absent, and both predictions absent
PredFieldEntries ==
    << [dg_id |-> 1, final_pred |-> 0, baseline_pred |-> 1200],
       [dg_id |-> 2, baseline_pred |-> 800, cf_short_comp |-> 100],
       [dg_id |-> 3, total_fit_adjustment |-> 300],
       [dg_id |-> 4, final_pred |-> 5000, baseline_pred |-> -5000,
        total_fit_adjustment |-> 9000, cf_short_comp |-> -9000,
        cf_approach_comp |-> 9000],
       [dg_id |-> 7, final_pred |-> 500, baseline_pred |-> 0],
       [dg_id |-> 0, final_pred |-> 700] >>

\* one player a little under the LOCK threshold
NearLockEntries ==
    << [dg_id |-> 1, total_fit_adjustment |-> 734, cf_short_comp |-> 0,
        cf_approach_comp |-> 0, final_pred |-> 2000],
       [dg_id |-> 2, total_fit_adjustment |-> 1000, cf_short_comp |-> 500,
        cf_approach_comp |-> 500, final_pred |-> 1000],
       [dg_id |-> 3, total_fit_adjustment |-> 0, cf_short_comp |-> 300,
        cf_approach_comp |-> 300, final_pred |-> 500] >>

DecompDocsSmall == { [players |-> JList(DecompEntries(3, 2))] }

DecompDocs ==
    DecompDocsSmall \cup
    { [players |-> JList(DecompEntries(MaxPlayers, 3))],
      [players |-> JList(PredFieldEntries)],
      [players |-> JList(NearLockEntries)],
      [players |-> JString],
      EmptyDoc }


(***************************************************************************)
(* State machine: one /api/top20-picks request and one                     *)
(* /api/outrights?market=top_20 request, whose fetch has the cache key of  *)
(* the second fetch of top20-picks.                                        *)
(***************************************************************************)
Requests == {"top20", "outrights"}

Datasets == 1..3

\* the datasets a request fetches
Fetched(r) == IF r = "top20" THEN Datasets ELSE {2}

Tour == "pga"

MaxNow == 20

\* how far the clock moves between two events: while requests are served,
\* and while the cache is exercised on its own
RequestTick == 10

CacheTick == 5

\* what the provider can answer: a document, an error status, no answer in 30 s
Replies(i) ==
    {[status |-> 200, doc |-> d] :
        d \in (IF i = 1 THEN PredDocsSmall
               ELSE IF i = 2 THEN OddsDocsSmall ELSE DecompDocsSmall)}
    \cup {[status |-> 503, doc |-> EmptyDoc], [status |-> 0, doc |-> EmptyDoc]}

NoTask == [pc |-> "none", key |-> <<>>, readAt |-> 0, failed |-> FALSE,
           result |-> Returned(EmptyDoc)]

NoResponse == [status |-> 0, body |-> EmptyDoc]

NoProbe == [key |-> <<>>, result |-> Miss]

Keys ==
    {cache_key(Fetches(Tour)[i].endpoint, with_auth(Fetches(Tour)[i].params, "secret")) :
        i \in Datasets}

InitCommon ==
    /\ now = 0
    /\ response = [r \in Requests |-> NoResponse]
    /\ calls = [r \in Requests |-> [i \in Fetched(r) |-> 0]]
    /\ lastPut = EmptyDoc
    /\ probe = NoProbe

Init ==
    /\ DG_API_KEY \in {"", "secret"}
    /\ cache = EmptyDoc
    /\ pc = [r \in Requests |-> "idle"]
    /\ task = [r \in Requests |-> [i \in Fetched(r) |-> NoTask]]
    /\ InitCommon

\* a request arrives; top20-picks hands its three coroutines to asyncio.gather
Start(r) ==
    /\ pc[r] \in {"idle", "done"}
    /\ pc' = [pc EXCEPT ![r] = "gather"]
    /\ task' = [task EXCEPT ![r] = [i \in Fetched(r) |-> [NoTask EXCEPT !.pc = "ready"]]]
    /\ response' = [response EXCEPT ![r] = NoResponse]
    /\ calls' = [calls EXCEPT ![r] = [i \in Fetched(r) |-> 0]]
    /\ UNCHANGED <<DG_API_KEY, cache, now, lastPut, probe>>

\* the record of a set_cached(key, data) call made at `now` by a caller that
\* read the cache at readAt: what was stored, and the timestamp of the entry
\* it replaced (-1 if there was none)
Recorded(key, data, readAt) ==
    [k \in DOMAIN lastPut \cup {key} |->
        IF k = key
        THEN [data |-> data, at |-> now, readAt |-> readAt,
              replaced |-> IF key \in DOMAIN cache THEN cache[key].timestamp ELSE -1]
        ELSE lastPut[k]]

\* top20-picks wraps dg_fetch in safe_dg_fetch, the pass-through does not
Wrap(r, outcome) == IF r = "top20" THEN safe_dg_fetch(outcome) ELSE outcome

\* dg_fetch runs up to `await client.get`
FetchBegin(r, i) ==
    /\ pc[r] = "gather"
    /\ task[r][i].pc = "ready"
    /\ LET f == Fetches(Tour)[i]
           b == dg_fetch_begin(cache, DG_API_KEY, f.endpoint, f.params, now)
       IN  /\ task' = [task EXCEPT ![r][i] =
                          [pc     |-> b.next,
                           key    |-> b.key,
                           readAt |-> IF b.next = "await" THEN now ELSE 0,
                           failed |-> b.outcome.raised,
                           result |-> Wrap(r, b.outcome)]]
           /\ calls' = [calls EXCEPT ![r][i] = IF b.next = "await" THEN @ + 1 ELSE @]
    /\ UNCHANGED <<DG_API_KEY, cache, now, pc, response, lastPut, probe>>

\* the upstream call settles and dg_fetch runs to its end
FetchReply(r, i) ==
    /\ pc[r] = "gather"
    /\ task[r][i].pc = "await"
    /\ \E reply \in Replies(i) :
          /\ cache' = cache_after_reply(cache, task[r][i].key, reply, now)
          /\ lastPut' = IF reply.status = 200
                        THEN Recorded(task[r][i].key, reply.doc, task[r][i].readAt)
                        ELSE lastPut
          /\ task' = [task EXCEPT ![r][i] =
                         [@ EXCEPT !.pc = "done",
                                   !.readAt = 0,
                                   !.failed = dg_fetch_reply(reply).raised,
                                   !.result = Wrap(r, dg_fetch_reply(reply))]]
    /\ UNCHANGED <<DG_API_KEY, now, pc, response, calls, probe>>

\* get_top20_picks after the gather: merge, score, rank and answer
Respond ==
    LET r == "top20"
    IN  /\ pc[r] = "gather"
        /\ \A i \in Datasets : task[r][i].pc = "done"
        /\ response' = [response EXCEPT ![r] =
              IF \E i \in Datasets : task[r][i].result.raised
              THEN [status |-> 500, body |-> EmptyDoc]
              ELSE [status |-> 200,
                    body   |-> top20_picks(task[r][1].result.doc,
                                           task[r][2].result.doc,
                                           task[r][3].result.doc)]]
        /\ pc' = [pc EXCEPT ![r] = "done"]
        /\ UNCHANGED <<DG_API_KEY, cache, now, task, calls, lastPut, probe>>

\* get_outrights: `return await dg_fetch(..)`, an exception reaches the caller
RespondOutrights ==
    LET r == "outrights"
    IN  /\ pc[r] = "gather"
        /\ task[r][2].pc = "done"
        /\ response' = [response EXCEPT ![r] =
              IF task[r][2].result.raised
              THEN [status |-> 500, body |-> EmptyDoc]
              ELSE [status |-> 200, body |-> task[r][2].result.doc]]
        /\ pc' = [pc EXCEPT ![r] = "done"]
        /\ UNCHANGED <<DG_API_KEY, cache, now, task, calls, lastPut, probe>>

Tick(minutes) ==
    /\ now + minutes <= MaxNow
    /\ now' = now + minutes
    /\ probe' = NoProbe
    /\ UNCHANGED <<DG_API_KEY, cache, pc, task, response, calls, lastPut>>

Next ==
    \/ \E r \in Requests : Start(r)
    \/ \E r \in Requests : \E i \in Fetched(r) : FetchBegin(r, i)
    \/ \E r \in Requests : \E i \in Fetched(r) : FetchReply(r, i)
    \/ Respond
    \/ RespondOutrights
    \/ Tick(RequestTick)

Spec == Init /\ [][Next]_vars

(***************************************************************************)
(* The cache on its own: any sequence of set_cached / get_cached calls     *)
(***************************************************************************)
CacheData == PredDocsSmall \cup OddsDocsSmall

InitCache ==
    /\ DG_API_KEY = "secret"
    /\ cache = EmptyDoc
    /\ pc = [r \in Requests |-> "idle"]
    /\ task = [r \in Requests |-> [i \in Fetched(r) |-> NoTask]]
    /\ InitCommon

CallSetCached(key, data) ==
    /\ cache' = set_cached(cache, key, data, now)
    /\ lastPut' = Recorded(key, data, now)
    /\ probe' = NoProbe
    /\ UNCHANGED <<DG_API_KEY, now, pc, task, response, calls>>

CallGetCached(key) ==
    /\ probe' = [key |-> key, result |-> get_cached(cache, key, now)]
    /\ UNCHANGED <<DG_API_KEY, cache, now, pc, task, response, calls, lastPut>>

NextCache ==
    \/ \E key \in Keys, data \in CacheData : CallSetCached(key, data)
    \/ \E key \in Keys : CallGetCached(key)
    \/ Tick(CacheTick)

SpecCache == InitCache /\ [][NextCache]_vars

(***************************************************************************)
(* The pipeline on its own: the gather has delivered three documents       *)
(***************************************************************************)
InitPicks ==
    /\ DG_API_KEY = "secret"
    /\ \E p \in PredDocs, o \in OddsDocs, d \in DecompDocs :
          LET docs == <<p, o, d>>
              key(i) == cache_key(Fetches(Tour)[i].endpoint,
                                  with_auth(Fetches(Tour)[i].params, DG_API_KEY))
          IN  /\ cache = [k \in Keys |->
                            [data |-> docs[CHOOSE i \in Datasets : key(i) = k],
                             timestamp |-> 0]]
              /\ task = [r \in Requests |->
                           IF r = "top20"
                           THEN [i \in Datasets |->
                                   [pc |-> "done", key |-> key(i), readAt |-> 0,
                                    failed |-> FALSE, result |-> Returned(docs[i])]]
                           ELSE [i \in Fetched(r) |-> NoTask]]
    /\ pc = [r \in Requests |-> IF r = "top20" THEN "gather" ELSE "idle"]
    /\ now = 0
    /\ response = [r \in Requests |-> NoResponse]
    /\ calls = [r \in Requests |-> [i \in Fetched(r) |-> IF r = "top20" THEN 1 ELSE 0]]
    /\ lastPut = EmptyDoc
    /\ probe = NoProbe

NextPicks == Respond

SpecPicks == InitPicks /\ [][NextPicks]_vars

\* the documents and the answer of the top20-picks request
Predictions == task["top20"][1].result.doc

Outrights == task["top20"][2].result.doc

Decomps == task["top20"][3].result.doc

Answered == pc["top20"] = "done" /\ response["top20"].status = 200

Picks == response["top20"].body.picks

Candidates == merged(Predictions, Outrights, Decomps)


(***************************************************************************)
(* Properties of the pipeline (SpecPicks)                                  *)
(***************************************************************************)
Ids(seq) == {seq[i].dg_id : i \in 1..Len(seq)}

\* every candidate scored, before the sort and the truncation
Scored == IF Candidates = <<>> THEN <<>> ELSE build_picks(Candidates)

\* C4: the picks are min(30, number of candidates) many, their floor_score
\* never increases down the list, and no candidate cut by the truncation
\* has a floor_score above that of a returned pick.
C4_Top30Sorted ==
    Answered =>
        LET scored == Scored
            picks  == Picks
            cut    == {i \in 1..Len(scored) : scored[i].dg_id \notin Ids(picks)}
        IN  /\ Len(picks) = Min(30, Len(scored))
            /\ Len(picks) <= 30
            /\ \A i \in 1..Len(picks) - 1 :
                  picks[i].floor_score >= picks[i + 1].floor_score
            /\ \A i \in cut : \A j \in 1..Len(picks) :
                  scored[i].floor_score <= picks[j].floor_score

C4_Witness ==
    /\ Answered
    /\ Len(Picks) = 30
    /\ Picks[1].floor_score > Picks[30].floor_score
    /\ LET scored == Scored
       IN  /\ Len(scored) > 30
           /\ \E i \in 1..Len(scored) :
                 scored[i].dg_id \notin Ids(Picks) /\ scored[i].floor_score > 0

\* the OddsRecords, and the players whose record is inside the band 1.5 .. 6.0
OddsRecords == odds_lookup(Outrights)

InBandIds(records) ==
    {records[i].k : i \in {j \in 1..Len(records) :
                              /\ records[j].v.best_dec >= 150
                              /\ records[j].v.best_dec <= 600}}

\* the outrights document without the entries of the players outside the band
WithoutExcluded(outrights, keep) ==
    IF "odds" \in DOMAIN outrights /\ outrights.odds.type = "list"
    THEN [outrights EXCEPT !.odds =
             JList(SelectSeq(outrights.odds.items,
                             LAMBDA p : Get(p, "dg_id", 0) \in keep))]
    ELSE outrights

\* C5: a player with an OddsRecord is a candidate exactly if his best decimal
\* odds lie in [1.5, 6.0], both ends included; every pick has best_odds_dec
\* in that range; the players outside it have no effect on the answer.
C5_OddsBand ==
    Answered =>
        LET keep == InBandIds(OddsRecords)
        IN  /\ Ids(Candidates) = keep
            /\ \A i \in 1..Len(Picks) :
                  Picks[i].best_odds_dec >= 150 /\ Picks[i].best_odds_dec <= 600
            /\ response["top20"].body =
                  top20_picks(Predictions, WithoutExcluded(Outrights, keep), Decomps)

C5_Witness ==
    /\ Answered
    /\ LET records == OddsRecords
           at(dec) == {records[i].k : i \in {j \in 1..Len(records) :
                                                records[j].v.best_dec = dec}}
       IN  /\ at(149) # {}
           /\ at(150) # {} /\ at(150) \subseteq Ids(Picks)
           /\ at(600) # {} /\ at(600) \subseteq Ids(Picks)
           /\ \E id \in at(601) : DictHas(decomps_lookup(Decomps), id)

\* the tier of a score given in tenths
TierOfTenths(score) ==
    IF score >= 850 THEN "LOCK"
    ELSE IF score >= 750 THEN "HIGH"
    ELSE IF score >= 650 THEN "SOLID"
    ELSE "LEAN"

\* the weighted sum of a pick's returned factors, in units of 1/10000
WeightedSum(pick) ==
    269 * pick.factors.model + 133 * pick.factors.course
    + 59 * pick.factors.short_game + 56 * pick.factors.approach
    + 150 * pick.factors.form + 333 * pick.factors.overall

\* C6 as claimed: the tier of every pick is the tier of its returned floor_score.
C6_TierOfReturnedScore ==
    Answered =>
        \A i \in 1..Len(Picks) :
            Picks[i].confidence = TierOfTenths(Picks[i].floor_score)

\* C6 amended: the tier of every pick is decided by the unrounded weighted
\* sum fs of its six factors (LOCK from 85, HIGH from 75, SOLID from 65, else
\* LEAN), and the returned floor_score is fs rounded to one decimal.
C6_TierOfUnroundedScore ==
    Answered =>
        \A i \in 1..Len(Picks) :
            LET fs == WeightedSum(Picks[i])
            IN  /\ Picks[i].confidence =
                      (IF fs >= 850000 THEN "LOCK"
                       ELSE IF fs >= 750000 THEN "HIGH"
                       ELSE IF fs >= 650000 THEN "SOLID"
                       ELSE "LEAN")
                /\ 2 * Abs(1000 * Picks[i].floor_score - fs) <= 1000

C6_Witness ==
    /\ Answered
    /\ \E i \in 1..Len(Picks) :
          Picks[i].floor_score = 850 /\ Picks[i].confidence = "HIGH"
    /\ \E i \in 1..Len(Picks) : Picks[i].confidence = "LEAN"


\* the last entry of a list that carries the identity id and passes `ok`
LastWith(list, id, ok(_)) ==
    LET hits == {i \in 1..Len(list) : Get(list[i], "dg_id", 0) = id /\ ok(list[i])}
    IN  IF hits = {} THEN 0 ELSE CHOOSE i \in hits : \A j \in hits : j <= i

HasOdds(p) == "top_20" \in DOMAIN p /\ p.top_20 > 0

ItemsOrNone(doc, field) ==
    IF field \in DOMAIN doc /\ doc[field].type = "list" THEN doc[field].items ELSE <<>>

\* the probability, in ten-thousandths, that the entries of `list` give a pick
ProbFrom(list, pick) ==
    LET i == LastWith(list, pick.dg_id, HasOdds)
    IN  IF i = 0 THEN 0 ELSE RoundHalfEven(1000000, list[i].top_20)

\* C8 as claimed: baseline is used whenever baseline_history_fit is absent
\* or is not a list.
C8_FallbackWhenAbsentOrNonList ==
    Answered =>
        LET primary == "baseline_history_fit" \in DOMAIN Predictions
                       /\ Predictions.baseline_history_fit.type = "list"
            list == IF primary THEN Predictions.baseline_history_fit.items
                    ELSE ItemsOrNone(Predictions, "baseline")
        IN  \A i \in 1..Len(Picks) :
                Picks[i].dg_top20_prob = ProbFrom(list, Picks[i])

\* C8 amended: baseline is used only when baseline_history_fit is absent; a
\* baseline_history_fit that is present but not a list gives no prediction
\* records at all.  Each entry of the list used that has a player id and
\* top_20 > 0 gives the probability 1 / top_20 (the last one for a repeated
\* id); every other entry is skipped.
C8_FallbackOnlyWhenAbsent ==
    Answered =>
        LET list == IF "baseline_history_fit" \in DOMAIN Predictions
                    THEN ItemsOrNone(Predictions, "baseline_history_fit")
                    ELSE ItemsOrNone(Predictions, "baseline")
            records == pred_lookup(Predictions)
        IN  /\ \A i \in 1..Len(Picks) :
                  Picks[i].dg_top20_prob = ProbFrom(list, Picks[i])
            /\ \A id \in 0..MaxPlayers :
                  DictHas(records, id) <=> id # 0 /\ LastWith(list, id, HasOdds) # 0

C8_Witness ==
    /\ Answered
    /\ "baseline_history_fit" \in DOMAIN Predictions
    /\ Predictions.baseline_history_fit.type # "list"
    /\ ItemsOrNone(Predictions, "baseline") # <<>>
    /\ Picks # <<>>
    /\ \A i \in 1..Len(Picks) :
          /\ Picks[i].dg_top20_prob = 0
          /\ LastWith(Predictions.baseline.items, Picks[i].dg_id, HasOdds) # 0

\* the skill record of a player: the last entry with his id
SkillRecord(id) ==
    LET list == ItemsOrNone(Decomps, "players")
        i == LastWith(list, id, LAMBDA p : TRUE)
    IN  IF i = 0 THEN EmptyDoc ELSE list[i]

\* C9: sg_total_predicted is final_pred whenever the skill record has that
\* field, whatever its value; baseline_pred only when final_pred is absent;
\* 0 when both are absent or there is no skill record.
C9_FinalPredWhenPresent ==
    Answered =>
        \A i \in 1..Len(Picks) :
            LET rec == SkillRecord(Picks[i].dg_id)
            IN  Picks[i].sg_total_predicted =
                   (IF "final_pred" \in DOMAIN rec THEN rec.final_pred
                    ELSE IF "baseline_pred" \in DOMAIN rec THEN rec.baseline_pred
                    ELSE 0)

\* the raw values of one factor over the candidates
FactorVals(c, name) ==
    AsTuple([i \in 1..Len(c) |->
                IF name = "model" THEN c[i].dg_top20_prob
                ELSE IF name = "course" THEN Rat(c[i].course_fit, 1)
                ELSE IF name = "short_game" THEN Rat(c[i].sg_short_game, 1)
                ELSE IF name = "approach" THEN Rat(c[i].sg_approach, 1)
                ELSE IF name = "overall" THEN Rat(c[i].sg_total_predicted, 1)
                ELSE form(c[i])])

FactorNames == {"model", "course", "short_game", "approach", "form", "overall"}

Whole(x) == [n |-> x, d |-> 1]

\* min-max scaling of vals to out: flat gives 50 everywhere; otherwise the
\* minimum gives 0, the maximum 100, everything lies in between in the order
\* of the raw values, and whole-numbered raw values scale exactly
MinMaxScaled(vals, out) ==
    LET I == 1..Len(vals)
        lo == {i \in I : \A j \in I : ~RLess(vals[j], vals[i])}
        hi == {i \in I : \A j \in I : ~RLess(vals[i], vals[j])}
        mn == vals[CHOOSE i \in lo : TRUE]
        mx == vals[CHOOSE i \in hi : TRUE]
    IN  /\ Len(out) = Len(vals)
        /\ IF lo = I
           THEN \A i \in I : out[i] = Whole(50)
           ELSE /\ \A i \in lo : out[i] = Whole(0)
                /\ \A i \in hi : out[i] = Whole(100)
                /\ \A i \in I : ~RLess(out[i], Whole(0)) /\ ~RLess(Whole(100), out[i])
                /\ \A i, j \in I : RLess(vals[i], vals[j]) <=> RLess(out[i], out[j])
                /\ \A i \in I :
                      vals[i].d = 1 /\ mn.d = 1 /\ mx.d = 1
                         => out[i].n * (mx.n - mn.n) = 100 * (vals[i].n - mn.n) * out[i].d

\* C10: each of the six factors is min-max scaled over the candidate set
\* (all equal: 50.0 for everyone; else (v - min) / (max - min) * 100), the
\* returned factors are these values to one decimal, and [0, 5, 10] scales
\* to [0, 50, 100], [10, 10, 10] to [50, 50, 50].
C10_MinMaxNormalization ==
    /\ normalize(<<Whole(0), Whole(5), Whole(10)>>) = <<Whole(0), Whole(50), Whole(100)>>
    /\ normalize(<<Whole(10), Whole(10), Whole(10)>>) = <<Whole(50), Whole(50), Whole(50)>>
    /\ Answered =>
          LET c == Candidates
              scored == Scored
          IN  \A name \in FactorNames :
                  LET vals == FactorVals(c, name)
                      out  == normalize(vals)
                  IN  c # <<>> =>
                        /\ MinMaxScaled(vals, out)
                        /\ \A i \in 1..Len(c) :
                              /\ scored[i].factors[name] = Round1(out[i])
                              /\ scored[i].factors[name] \in 0..1000
                              /\ \A j \in 1..Len(Picks) :
                                    Picks[j].dg_id = c[i].dg_id
                                       => Picks[j].factors[name] = scored[i].factors[name]

C10_Witness ==
    /\ Answered
    /\ Len(Picks) >= 3
    /\ \A i \in 1..Len(Picks) : Picks[i].factors.model = 500
    /\ \E i, j, k \in 1..Len(Picks) :
          /\ Picks[i].factors.course = 0
          /\ Picks[j].factors.course = 1000
          /\ Picks[k].factors.course \in 1..999


(***************************************************************************)
(* Properties of the cache and of the fetches (SpecCache, Spec)            *)
(***************************************************************************)
\* C2: get_cached(key) gives the data of the latest set_cached(key, ..)
\* exactly while now - storedAt < 15 minutes, and None if there was no such
\* call or 15 minutes or more have passed.
C2_GetAfterSet ==
    probe # NoProbe =>
        LET k == probe.key
        IN  IF k \in DOMAIN lastPut /\ now - lastPut[k].at < 15
            THEN probe.result = [hit |-> TRUE, data |-> lastPut[k].data]
            ELSE probe.result = Miss

C2_Witness ==
    /\ probe # NoProbe
    /\ probe.key \in DOMAIN lastPut
    /\ now - lastPut[probe.key].at = 15
    /\ ~probe.result.hit
    /\ \E k \in DOMAIN lastPut : now - lastPut[k].at = 10 /\ lastPut[k].replaced = 0

\* C1: in a top20-picks request every fetch that fails hands back the empty
\* document, the request never gets a raised exception from a fetch, and the
\* endpoint answers with a document {event_name, picks}; the datasets whose
\* fetch succeeded are all in the answer.
C1_FailuresAbsorbed ==
    LET t == task["top20"]
        failed(i) == t[i].failed
    IN  /\ \A i \in Datasets :
              /\ ~t[i].result.raised
              /\ failed(i) => t[i].result.doc = EmptyDoc
              /\ t[i].pc = "done" /\ ~failed(i) => t[i].result.doc # EmptyDoc
        /\ pc["top20"] = "done" =>
              /\ response["top20"].status = 200
              /\ DOMAIN response["top20"].body = {"event_name", "picks"}
              /\ failed(2) <=> Picks = <<>>
              /\ response["top20"].body.event_name =
                    (IF ~failed(2) THEN "Masters" ELSE IF ~failed(1) THEN "Open" ELSE "")
              /\ Picks # <<>> =>
                    /\ failed(1) <=> \A n \in 1..Len(Picks) : Picks[n].dg_top20_prob = 0
                    /\ failed(3) <=> \A n \in 1..Len(Picks) : Picks[n].sg_total_predicted = 0

C1_Witness ==
    /\ pc["top20"] = "done"
    /\ response["top20"].status = 200
    /\ task["top20"][1].failed
    /\ ~task["top20"][2].failed
    /\ task["top20"][3].failed
    /\ Len(Picks) = 3
    /\ calls["top20"][1] = 1

\* C3 as claimed: an entry that set_cached replaces is at least 15 minutes old.
C3_ReplacedOnlyWhenExpired ==
    \A k \in DOMAIN lastPut :
        lastPut[k].replaced = -1 \/ lastPut[k].at - lastPut[k].replaced >= 15

\* C3 amended: set_cached replaces an entry as a whole, and the entry it
\* replaces was either at least 15 minutes old when the replacing dg_fetch
\* read the cache, or was stored after that read by another dg_fetch of the
\* same key (and may then be younger than 15 minutes).
C3_ReplacedAfterMiss ==
    /\ \A k \in DOMAIN lastPut :
          \/ lastPut[k].replaced = -1
          \/ lastPut[k].readAt - lastPut[k].replaced >= 15
          \/ lastPut[k].replaced >= lastPut[k].readAt
    /\ \A k \in DOMAIN cache :
          /\ DOMAIN cache[k] = {"data", "timestamp"}
          /\ k \in DOMAIN lastPut
          /\ cache[k] = [data |-> lastPut[k].data, timestamp |-> lastPut[k].at]

C3_Witness ==
    \E k \in DOMAIN lastPut :
        /\ lastPut[k].replaced >= lastPut[k].readAt
        /\ lastPut[k].at - lastPut[k].replaced < 15
        /\ cache[k].timestamp = lastPut[k].at

\* the entry a fetch of dataset i finds fresh, by the record of set_cached calls
KeyOf(i) ==
    cache_key(Fetches(Tour)[i].endpoint, with_auth(Fetches(Tour)[i].params, DG_API_KEY))

Fresh(i) == KeyOf(i) \in DOMAIN lastPut /\ now - lastPut[KeyOf(i)].at < 15

\* C7: a request makes at most one upstream call per dataset; a fetch that
\* fails leaves the cache as it was, so that the next fetch of the key calls
\* upstream again; a fetch that succeeds stores its result under the key
\* before it returns, and a fetch that finds that entry within the TTL
\* returns it without an upstream call.
C7_NoRetryNoNegativeCaching ==
    [][\A r \in Requests : \A i \in Fetched(r) :
          /\ calls'[r][i] <= 1
          /\ (task[r][i].pc = "ready" /\ task'[r][i].pc # "ready" /\ DG_API_KEY # "") =>
                IF Fresh(i)
                THEN /\ task'[r][i].pc = "done"
                     /\ calls'[r][i] = 0
                     /\ task'[r][i].result = Returned(lastPut[KeyOf(i)].data)
                ELSE /\ task'[r][i].pc = "await"
                     /\ calls'[r][i] = 1
          /\ (task[r][i].pc = "await" /\ task'[r][i].pc = "done") =>
                IF task'[r][i].failed
                THEN cache' = cache
                ELSE /\ cache'[KeyOf(i)] =
                           [data |-> task'[r][i].result.doc, timestamp |-> now]
                     /\ \A k \in DOMAIN cache : k # KeyOf(i) => cache'[k] = cache[k]
    ]_vars

C7_Witness ==
    /\ DG_API_KEY # ""
    /\ task["top20"][2].pc = "done"
    /\ ~task["top20"][2].failed
    /\ calls["top20"][2] = 0
    /\ task["top20"][3].pc = "await"
    /\ task["outrights"][2].failed
    /\ KeyOf(3) \notin DOMAIN cache
    /\ now - cache[KeyOf(2)].timestamp = 10


====
